---- MODULE Spec2Model ----
(***************************************************************************)
(* Model of the agent API server (src/api.py): the task registry           *)
(* active_tasks, the handlers create_query, get_result and                 *)
(* reset_workspace, the background coroutine run_agent, and the workspace  *)
(* directory shared with the agent's command-line tools.                   *)
(*                                                                         *)
(* Scheduling: every handler is an `async def` without an await, so it     *)
(* runs to completion on the single event loop; run_agent has one          *)
(* suspension point, the agent call.  The agent's tools run in another     *)
(* process, so their writes to the workspace interleave with the file      *)
(* system calls of reset_workspace; reset_workspace is therefore modelled  *)
(* call by call, and nothing else of the event loop runs while it is       *)
(* between two calls.                                                      *)
(***************************************************************************)
EXTENDS Naturals, Sequences, FiniteSets, TLC

VARIABLES
    active_tasks,   \* api.py:85   the registry: query_id -> [status, result]
    bg,             \* the background tasks added by create_query, in order
    env_key,        \* os.getenv("ANTHROPIC_API_KEY"): "unset", "empty" or "set"
    workspace,      \* WORKSPACE_DIR on disk: [exists, files]
    reset,          \* position of a running reset_workspace: [pc, prior, raced];
                    \* raced: a tool wrote to the workspace during the latest call
    last,           \* the last response a handler returned
    issued,         \* history: the query_ids create_query returned, in order
    polled,         \* history: query_id -> the first terminal record a poll returned,
                    \*          and whether one (n = 1) or more (n = 2) polls returned one
    flask,          \* flask_github_agent.py: the /query request being served and
                    \*          the response of the latest request
    session,        \* flask_github_agent.py: the session cookie the browser holds
    mcp,            \* client.py: the MCPHttpClient object, the aiohttp sessions it
                    \*          created, its latest call and the position of main()
    st,             \* streamlit/app.py: st.session_state, the cached aiohttp
                    \*          session and the latest call
    sup             \* start_github_agent.py: the position of main() and its two
                    \*          child processes

vars == <<active_tasks, bg, env_key, workspace, reset, last, issued, polled,
          flask, session, mcp, st, sup>>

\* the state of the clients of the MCP server and of the start script
cvars == <<mcp, st, sup>>

\* the state of the API server and its chat front end
avars == <<active_tasks, bg, env_key, workspace, reset, last, issued, polled,
           flask, session>>

\* the state of the chat front end
fvars == <<flask, session>>

----------------------------------------------------------------------------
(* Bounds and input sets *)

\* number of submissions explored
MaxTasks == 2

\* files a tool may create in the workspace
Files == {"repo"}

\* text an agent call may return
Outputs == {"deployed"}

\* messages of the exceptions an agent call may raise
ExcMsgs == {"connection lost"}

\* status code of a handler that returns normally
HTTP_OK == 200

----------------------------------------------------------------------------
(* Values *)

\* Python's None / a str, the str as the sequence of its pieces
None == [isNone |-> TRUE, text |-> <<>>]
Str(pieces) == [isNone |-> FALSE, text |-> pieces]

\* s contains the piece p
Contains(s, p) == ~s.isNone /\ \E i \in DOMAIN s.text : s.text[i] = p

\* s starts with the piece p
StartsWith(s, p) == ~s.isNone /\ Len(s.text) > 0 /\ s.text[1] = p

\* f"query_{n}"
QueryId(n) == <<"query_", n>>

\* an identifier create_query never produces
InvalidId == <<"invalid_id_", 123>>

\* the identifiers a client may poll
PollIds == {QueryId(n) : n \in 1..MaxTasks} \cup {InvalidId}

NoArg == <<"", 0>>

Terminal(rec) == rec.status \in {"completed", "error"}

\* dict item assignment d[k] = v (insert or overwrite)
SetItem(d, k, v) == [x \in (DOMAIN d) \cup {k} |-> IF x = k THEN v ELSE d[x]]

EmptyRegistry == [x \in {} |-> [status |-> "processing", result |-> None]]

----------------------------------------------------------------------------
(* create_query, api.py:120-128 *)

\* Mutant: the number is taken from the tasks still in processing.
NextQueryId_CountsProcessing(reg) ==
    QueryId(Cardinality({k \in DOMAIN reg : reg[k].status = "processing"}) + 1)

\* Mutant: the identifiers are numbered from the registry size itself.
NextQueryId_ZeroBased(reg) == QueryId(Cardinality(DOMAIN reg))

\* api.py:122  query_id = f"query_{len(active_tasks) + 1}"
NextQueryId(reg) == QueryId(Cardinality(DOMAIN reg) + 1)

\* api.py:123  the record of a new submission
NewRecord == [status |-> "processing", result |-> None]

\* Mutant: create_query does not insert the record (run_agent's write creates it).
create_record_Lazy(reg, id) == reg

\* api.py:123  active_tasks[query_id] = {"status": "processing", "result": None}
create_record(reg, id) == SetItem(reg, id, NewRecord)

\* Mutant: run_agent is scheduled twice for one submission.
add_task_Twice(tasks, id, text) ==
    LET t == [query_id |-> id, text |-> text, pc |-> "scheduled", calls |-> 0, exc |-> ""]
    IN  Append(Append(tasks, t), t)

\* api.py:126  background_tasks.add_task(run_agent, query_id, query.text)
add_task(tasks, id, text) ==
    Append(tasks, [query_id |-> id, text |-> text, pc |-> "scheduled", calls |-> 0,
                   exc |-> ""])

\* api.py:128  the response of create_query
CreateQueryResponse(id) ==
    [op |-> "create_query", arg |-> id, http |-> HTTP_OK,
     body |-> [query_id |-> id, status |-> "processing"]]

\* The event loop is free: no reset_workspace is between two of its calls.
LoopFree == reset.pc = "idle"

\* api.py:120-128  the handler, whoever the client is
create_query(text) ==
    /\ LoopFree
    /\ Len(issued) < MaxTasks
    /\ LET id == NextQueryId(active_tasks) IN
        /\ active_tasks' = create_record(active_tasks, id)
        /\ bg' = add_task(bg, id, text)
        /\ last' = CreateQueryResponse(id)
        /\ issued' = Append(issued, id)
    /\ UNCHANGED <<env_key, workspace, reset, polled>>

\* POST /query from a client other than the chat front end
CreateQuery(text) == create_query(text) /\ UNCHANGED fvars /\ UNCHANGED cvars

----------------------------------------------------------------------------
(* get_result, api.py:130-135 *)

NotFound == [status |-> "not_found"]

NotPolled == [first |-> [status |-> "unpolled"], n |-> 0]

\* Mutant: an unknown identifier gets a record (active_tasks.setdefault).
get_result_SetDefault(reg, id) ==
    IF id \notin DOMAIN reg
    THEN [body |-> [status |-> "processing", result |-> None],
          reg |-> SetItem(reg, id, [status |-> "processing", result |-> None])]
    ELSE [body |-> reg[id], reg |-> reg]

\* Mutant: a terminal record is removed once it was delivered (active_tasks.pop).
get_result_Pop(reg, id) ==
    IF id \notin DOMAIN reg
    THEN [body |-> [status |-> "not_found"], reg |-> reg]
    ELSE [body |-> reg[id],
          reg |-> IF Terminal(reg[id])
                  THEN [k \in (DOMAIN reg) \ {id} |-> reg[k]]
                  ELSE reg]

\* api.py:132-135  the body returned and the registry afterwards
get_result(reg, id) ==
    IF id \notin DOMAIN reg
    THEN [body |-> NotFound, reg |-> reg]
    ELSE [body |-> reg[id], reg |-> reg]

\* api.py:130-135  the handler, whoever the client is
get_result_handler(id) ==
    /\ LoopFree
    /\ LET r == get_result(active_tasks, id) IN
        /\ active_tasks' = r.reg
        /\ last' = [op |-> "get_result", arg |-> id, http |-> HTTP_OK, body |-> r.body]
        /\ polled' = IF r.body.status \notin {"completed", "error"} THEN polled
                     ELSE IF polled[id] = NotPolled
                     THEN [polled EXCEPT ![id] = [first |-> r.body, n |-> 1]]
                     ELSE [polled EXCEPT ![id].n = 2]
    /\ UNCHANGED <<bg, env_key, workspace, reset, issued>>

\* GET /result/{query_id} from a client other than the chat front end
GetResult(id) == get_result_handler(id) /\ UNCHANGED fvars /\ UNCHANGED cvars

----------------------------------------------------------------------------
(* run_agent, api.py:88-118 *)

\* Mutant: only the empty string counts as missing (api_key == "").
ApiKeyMissing_OnlyEmpty(key) == key = "empty"

\* api.py:91  `if not api_key`: None and "" are both falsy
ApiKeyMissing(key) == key \in {"unset", "empty"}

\* api.py:92  the record written when the key is missing
KeyMissingRecord ==
    [status |-> "error",
     result |-> Str(<<"Error: ", "ANTHROPIC_API_KEY", " not found in .env file">>)]

\* Mutant: the result is stored but the status is not updated.
CompletedRecord_StillProcessing(out) == [status |-> "processing", result |-> Str(<<out>>)]

\* api.py:116  the record written when the agent call returns `out`
CompletedRecord(out) == [status |-> "completed", result |-> Str(<<out>>)]

\* Mutant: the exception's message is stored without the "Error: " prefix.
ErrorRecord_NoPrefix(msg) == [status |-> "error", result |-> Str(<<msg>>)]

\* api.py:118  f"Error: {str(e)}"
ErrorRecord(msg) == [status |-> "error", result |-> Str(<<"Error: ", msg>>)]

\* Mutant: no except clause, the exception leaves run_agent.
on_exception_Propagates(reg, id, msg) == [reg |-> reg, pc |-> "raised"]

\* api.py:117-118  the except clause: the registry afterwards and how run_agent ends
on_exception(reg, id, msg) ==
    [reg |-> SetItem(reg, id, ErrorRecord(msg)), pc |-> "returned"]

\* api.py:90-96: the key is read; without it the error record is written and
\* run_agent returns, with it the agent is called (api.py:98-115) and
\* run_agent is suspended in the call.
RunAgentStart(i) ==
    /\ LoopFree
    /\ i \in DOMAIN bg
    /\ bg[i].pc = "scheduled"
    /\ IF ApiKeyMissing(env_key)
       THEN /\ active_tasks' = SetItem(active_tasks, bg[i].query_id, KeyMissingRecord)
            /\ bg' = [bg EXCEPT ![i].pc = "returned"]
       ELSE /\ active_tasks' = active_tasks
            /\ bg' = [bg EXCEPT ![i].pc = "awaiting", ![i].calls = @ + 1]
    /\ UNCHANGED <<env_key, workspace, reset, last, issued, polled, flask, session>>
    /\ UNCHANGED cvars

\* api.py:115-116  the agent call returns
AgentReturns(i, out) ==
    /\ LoopFree
    /\ i \in DOMAIN bg
    /\ bg[i].pc = "awaiting"
    /\ active_tasks' = SetItem(active_tasks, bg[i].query_id, CompletedRecord(out))
    /\ bg' = [bg EXCEPT ![i].pc = "returned"]
    /\ UNCHANGED <<env_key, workspace, reset, last, issued, polled, flask, session>>
    /\ UNCHANGED cvars

\* api.py:117-118  the agent call (or building the agent) raises an Exception
\* with message msg, which bg[i].exc keeps
AgentRaises(i, msg) ==
    /\ LoopFree
    /\ i \in DOMAIN bg
    /\ bg[i].pc = "awaiting"
    /\ LET r == on_exception(active_tasks, bg[i].query_id, msg) IN
        /\ active_tasks' = r.reg
        /\ bg' = [bg EXCEPT ![i].pc = r.pc, ![i].exc = msg]
    /\ UNCHANGED <<env_key, workspace, reset, last, issued, polled, flask, session>>
    /\ UNCHANGED cvars

\* api.py:26-30, 103-112  during the agent call a command-line tool creates a
\* file in the workspace directory (creating the directory when it is gone);
\* the tool runs in another process, also while reset_workspace runs.
ToolWrite(i, f) ==
    /\ i \in DOMAIN bg
    /\ bg[i].pc = "awaiting"
    /\ f \notin workspace.files \/ ~workspace.exists
    /\ workspace' = [exists |-> TRUE,
                     files |-> IF workspace.exists THEN workspace.files \cup {f} ELSE {f}]
    /\ reset' = IF reset.pc = "idle" THEN reset ELSE [reset EXCEPT !.raced = TRUE]
    /\ UNCHANGED <<active_tasks, bg, env_key, last, issued, polled, flask, session>>
    /\ UNCHANGED cvars

----------------------------------------------------------------------------
(* reset_workspace, api.py:182-191 *)

Absent == [exists |-> FALSE, files |-> {}]

\* Mutant: nothing is deleted.
rmtree_Noop(ws) == ws

\* shutil.rmtree(WORKSPACE_DIR) that succeeds, api.py:187
rmtree(ws) == Absent

\* Mutant: the directory is not recreated.
makedirs_exist_ok_Noop(ws) == ws

\* os.makedirs(WORKSPACE_DIR, exist_ok=True) that succeeds, api.py:188 (and :19)
makedirs_exist_ok(ws) == IF ws.exists THEN ws ELSE [exists |-> TRUE, files |-> {}]

PriorState(ws) ==
    IF ~ws.exists THEN "absent" ELSE IF ws.files = {} THEN "empty" ELSE "populated"

\* api.py:189
ResetSuccess ==
    [op |-> "reset_workspace", arg |-> NoArg, http |-> HTTP_OK,
     body |-> [status |-> "success",
               message |-> Str(<<"Workspace at ", "WORKSPACE_DIR", " has been reset">>)]]

\* Mutant: no try/except, the exception leaves the handler (a 500 response).
ResetError_Raises(msg) ==
    [op |-> "reset_workspace", arg |-> NoArg, http |-> 500,
     body |-> [status |-> "raised", message |-> Str(<<msg>>)]]

\* api.py:190-191
ResetError(msg) ==
    [op |-> "reset_workspace", arg |-> NoArg, http |-> HTTP_OK,
     body |-> [status |-> "error",
               message |-> Str(<<"Error resetting workspace: ", msg>>)]]

\* api.py:186  if os.path.exists(WORKSPACE_DIR)
ResetBegin ==
    /\ LoopFree
    /\ reset' = [pc |-> IF workspace.exists THEN "rmtree" ELSE "makedirs",
                 prior |-> PriorState(workspace), raced |-> FALSE]
    /\ UNCHANGED <<active_tasks, bg, env_key, workspace, last, issued, polled, flask, session>>
    /\ UNCHANGED cvars

\* api.py:187  shutil.rmtree removes the directory
ResetRmtree ==
    /\ reset.pc = "rmtree"
    /\ workspace' = rmtree(workspace)
    /\ reset' = [reset EXCEPT !.pc = "makedirs"]
    /\ UNCHANGED <<active_tasks, bg, env_key, last, issued, polled, flask, session>>
    /\ UNCHANGED cvars

\* api.py:187, 190-191  shutil.rmtree raises (a file it may not delete, an
\* entry created while it runs, the directory already gone): what it had
\* not yet deleted stays, and the handler answers with the error.
ResetRmtreeFails ==
    /\ reset.pc = "rmtree"
    /\ \E left \in SUBSET workspace.files :
          workspace' = IF workspace.exists
                       THEN [exists |-> TRUE, files |-> left]
                       ELSE workspace
    /\ reset' = [reset EXCEPT !.pc = "idle"]
    /\ last' = ResetError("rmtree failed")
    /\ UNCHANGED <<active_tasks, bg, env_key, issued, polled, flask, session>>
    /\ UNCHANGED cvars

\* Mutant: resetting the workspace also clears the registry.
ResetMakedirs_ClearsTasks ==
    /\ reset.pc = "makedirs"
    /\ workspace' = IF workspace.exists THEN workspace ELSE [exists |-> TRUE, files |-> {}]
    /\ reset' = [reset EXCEPT !.pc = "idle"]
    /\ last' = ResetSuccess
    /\ active_tasks' = EmptyRegistry
    /\ UNCHANGED <<bg, env_key, issued, polled, flask, session>>
    /\ UNCHANGED cvars

\* api.py:188-189  os.makedirs succeeds and the handler returns success
ResetMakedirs ==
    /\ reset.pc = "makedirs"
    /\ workspace' = makedirs_exist_ok(workspace)
    /\ reset' = [reset EXCEPT !.pc = "idle"]
    /\ last' = ResetSuccess
    /\ UNCHANGED <<active_tasks, bg, env_key, issued, polled, flask, session>>
    /\ UNCHANGED cvars

\* api.py:188, 190-191  os.makedirs raises
ResetMakedirsFails ==
    /\ reset.pc = "makedirs"
    /\ reset' = [reset EXCEPT !.pc = "idle"]
    /\ last' = ResetError("makedirs failed")
    /\ UNCHANGED <<active_tasks, bg, env_key, workspace, issued, polled, flask, session>>
    /\ UNCHANGED cvars

----------------------------------------------------------------------------
(* workspace_info, api.py:137-180 *)

\* the names of Files in the order sorted() gives them
NameOrder == <<"repo">>

\* api.py:143-169  get_directory_tree(WORKSPACE_DIR): one entry per name of
\* sorted(os.listdir(path)); the entries here are plain files
get_directory_tree(ws) ==
    LET names == SelectSeq(NameOrder, LAMBDA n : n \in ws.files)
    IN  [k \in 1..Len(names) |-> [name |-> names[k], path |-> names[k], type |-> "file"]]

\* Mutant: the tree is read without asking whether the directory exists;
\* os.listdir raises on a missing directory (a 500 response).
workspace_info_NoGuard(ws) ==
    IF ws.exists
    THEN [op |-> "workspace_info", arg |-> NoArg, http |-> HTTP_OK,
          body |-> [workspace_path |-> "WORKSPACE_DIR", workspace_exists |-> TRUE,
                    files |-> get_directory_tree(ws)]]
    ELSE [op |-> "workspace_info", arg |-> NoArg, http |-> 500,
          body |-> [detail |-> "Internal Server Error"]]

\* api.py:140, 172-180  the response of workspace_info
workspace_info(ws) ==
    [op |-> "workspace_info", arg |-> NoArg, http |-> HTTP_OK,
     body |-> [workspace_path |-> "WORKSPACE_DIR",
               workspace_exists |-> ws.exists,
               files |-> IF ws.exists THEN get_directory_tree(ws) ELSE <<>>]]

\* Mutant: workspace_info creates the directory it reports on.
WorkspaceInfo_Makedirs ==
    /\ LoopFree
    /\ last' = workspace_info(workspace)
    /\ workspace' = makedirs_exist_ok(workspace)
    /\ UNCHANGED <<active_tasks, bg, env_key, reset, issued, polled, flask, session>>
    /\ UNCHANGED cvars

WorkspaceInfo ==
    /\ LoopFree
    /\ last' = workspace_info(workspace)
    /\ UNCHANGED <<active_tasks, bg, env_key, workspace, reset, issued, polled, flask, session>>
    /\ UNCHANGED cvars

----------------------------------------------------------------------------
(* The chat front end, flask_github_agent.py:39-136.  One browser session; *)
(* its /query requests are served one after the other.                      *)

\* flask_github_agent.py:24-25, 49-50  a session cookie without a history
NoSession == [has |-> FALSE, messages |-> <<>>]

\* flask_github_agent.py:49-50  if 'messages' not in session: session['messages'] = []
load_messages(sess) == IF sess.has THEN sess ELSE [has |-> TRUE, messages |-> <<>>]

\* flask_github_agent.py:52, 65, 75, 90, 100, 106, 112, 121, 128, 134
append_message(sess, role, content) ==
    [sess EXCEPT !.messages = Append(@, [role |-> role, content |-> content])]

\* Mutant: the loop polls once more than the bound.
max_retries_OffByOne == 60 + 1

\* flask_github_agent.py:82
max_retries == 60

\* flask_github_agent.py:63, 88  f"Error: Server returned status code {code}..."
StatusCodeMsg(code, suffix) ==
    Str(<<"Error: ", "Server returned status code ", code, suffix>>)

\* flask_github_agent.py:110
NotFoundMsg == Str(<<"Error: ", "Query not found on server">>)

\* flask_github_agent.py:119
TimeoutMsg == Str(<<"Error: ", "Timed out waiting for response from agent">>)

\* flask_github_agent.py:126
ConnectMsg ==
    Str(<<"Error: ", "Could not connect to the agent server. Make sure it's running at ",
          "http://127.0.0.1:8000">>)

\* flask_github_agent.py:132  f"Error: {str(e)}"
ExceptionMsg(e) == Str(<<"Error: ", e>>)

\* the ways a request to the API server fails: a status code other than 200,
\* requests.exceptions.ConnectionError, any other exception
Failures == {"non200", "refused", "exception"}

\* flask_github_agent.py:62-67, 87-92, 125-136  the message of a failed request
FailureMsg(kind, suffix) ==
    CASE kind = "non200"  -> StatusCodeMsg("500", suffix)
      [] kind = "refused" -> ConnectMsg
      [] OTHER            -> ExceptionMsg("read timed out")

\* a /query response: poll_status is the status of the poll result the
\* response reports ("" when it reports none)
NoResponse == [http |-> 0, body |-> [status |-> "none"], poll_status |-> ""]

\* flask_github_agent.py:46
EmptyQueryResponse ==
    [http |-> 400, body |-> [error |-> "Query cannot be empty"], poll_status |-> ""]

\* Mutant: the connection-error handler returns the error without recording
\* it in the history.
exit_path_ForgetsRefused(sess, status, msg) ==
    [sess     |-> IF msg = ConnectMsg THEN sess ELSE append_message(sess, "assistant", msg),
     modified |-> TRUE,
     body     |-> [status |-> status, message |-> msg]]

\* flask_github_agent.py:65-67, 75-77, 90-92, 100-102, 106-108, 112-114,
\* 121-123, 128-130, 134-136  every exit after the user message: append the
\* assistant message, mark the session modified, return the JSON body
exit_path(sess, status, msg) ==
    [sess     |-> append_message(sess, "assistant", msg),
     modified |-> TRUE,
     body     |-> [status |-> status, message |-> msg]]

\* Flask writes the session into the cookie of the response when it is
\* marked modified
save_session(cookie, sess, modified) == IF modified THEN sess ELSE cookie

\* the request, its local state f, returns through an exit path
Return(f, status, msg, poll_status) ==
    LET x == exit_path(f.sess, status, msg) IN
    /\ flask' = [f EXCEPT !.pc = "idle", !.sess = NoSession, !.modified = FALSE,
                              !.retry = 0, !.status = "",
                              !.polls = 0,
                              !.resp = [http |-> HTTP_OK, body |-> x.body,
                                        poll_status |-> poll_status]]
    /\ session' = save_session(session, x.sess, x.modified \/ f.modified)

FlaskIdle ==
    [pc |-> "idle", query |-> "", query_id |-> NoArg, retry |-> 0, status |-> "",
     posts |-> 0, polls |-> 0, requests |-> 0, sess |-> NoSession,
     modified |-> FALSE, resp |-> NoResponse]

\* the form of a POST /query: without a field 'query', or with one
NoField == [has |-> FALSE, value |-> ""]
Field(v) == [has |-> TRUE, value |-> v]
Forms == {NoField, Field("")} \cup {Field(t) : t \in {"list files"}}

\* flask_github_agent.py:42  request.form.get('query', '')
form_get(form) == IF form.has THEN form.value ELSE ""

\* Mutant: the user message is stored before the query is validated.
FlaskQueryEmpty_StoresFirst(form) ==
    /\ flask.pc = "idle"
    /\ form_get(form) = ""
    /\ flask' = [flask EXCEPT !.resp = EmptyQueryResponse]
    /\ session' = append_message(load_messages(session), "user", Str(<<form_get(form)>>))
    /\ UNCHANGED <<active_tasks, bg, env_key, workspace, reset, last, issued, polled>>
    /\ UNCHANGED cvars

\* flask_github_agent.py:42-46  an empty query is refused
FlaskQueryEmpty(form) ==
    /\ flask.pc = "idle"
    /\ form_get(form) = ""
    /\ flask' = [flask EXCEPT !.resp = EmptyQueryResponse]
    /\ UNCHANGED <<active_tasks, bg, env_key, workspace, reset, last, issued, polled,
                   session>>
    /\ UNCHANGED cvars

\* flask_github_agent.py:42-52  a non-empty query: the user message is appended
FlaskQueryBegin(q) ==
    /\ flask.pc = "idle"
    /\ form_get(Field(q)) # ""
    /\ flask.requests < MaxTasks
    /\ flask' = [flask EXCEPT !.pc = "post", !.query = q, !.query_id = NoArg,
                              !.retry = 0, !.status = "", !.posts = 0, !.polls = 0,
                              !.requests = @ + 1,
                              !.sess = append_message(load_messages(session), "user",
                                                      Str(<<q>>)),
                              !.modified = ~session.has]
    /\ UNCHANGED <<active_tasks, bg, env_key, workspace, reset, last, issued, polled,
                   session>>
    /\ UNCHANGED cvars

\* flask_github_agent.py:57-79  POST /query is answered 200 with a query_id
FlaskPostOk ==
    /\ flask.pc = "post"
    /\ create_query(flask.query)
    /\ flask' = [flask EXCEPT !.pc = "poll", !.posts = @ + 1,
                              !.query_id = CreateQueryResponse(NextQueryId(active_tasks)).body.query_id]
    /\ UNCHANGED session
    /\ UNCHANGED cvars

\* flask_github_agent.py:57-67, 125-136  POST /query fails
FlaskPostFails(kind) ==
    /\ flask.pc = "post"
    /\ Return([flask EXCEPT !.posts = @ + 1], "error", FailureMsg(kind, ""), "")
    /\ UNCHANGED <<active_tasks, bg, env_key, workspace, reset, last, issued, polled>>
    /\ UNCHANGED cvars

\* Mutant: a poll that reports error is treated like one that reports
\* processing.
FlaskPoll_PollsOnAfterError ==
    /\ flask.pc = "poll"
    /\ flask.retry < max_retries
    /\ get_result_handler(flask.query_id)
    /\ LET result_data == get_result(active_tasks, flask.query_id).body
           status == result_data.status
           f == [flask EXCEPT !.polls = @ + 1]
       IN  CASE status = "completed" -> Return(f, "success", result_data.result, status)
             [] status = "not_found" -> Return(f, "error", NotFoundMsg, status)
             [] OTHER ->
                  /\ flask' = [f EXCEPT !.retry = @ + 1, !.status = status]
                  /\ UNCHANGED session
    /\ UNCHANGED cvars

\* flask_github_agent.py:83-117  one turn of the polling loop whose
\* GET /result/{query_id} is answered 200
FlaskPoll ==
    /\ flask.pc = "poll"
    /\ flask.retry < max_retries
    /\ get_result_handler(flask.query_id)
    /\ LET result_data == get_result(active_tasks, flask.query_id).body
           status == result_data.status
           f == [flask EXCEPT !.polls = @ + 1]
       IN  CASE status = "completed" -> Return(f, "success", result_data.result, status)
             [] status = "error"     -> Return(f, "error", result_data.result, status)
             [] status = "not_found" -> Return(f, "error", NotFoundMsg, status)
             [] OTHER ->
                  /\ flask' = [f EXCEPT !.retry = @ + 1, !.status = status]
                  /\ UNCHANGED session
    /\ UNCHANGED cvars

\* flask_github_agent.py:85-92, 125-136  a turn whose GET fails
FlaskPollFails(kind) ==
    /\ flask.pc = "poll"
    /\ flask.retry < max_retries
    /\ Return([flask EXCEPT !.polls = @ + 1], "error",
              FailureMsg(kind, " when fetching results"), "")
    /\ UNCHANGED <<active_tasks, bg, env_key, workspace, reset, last, issued, polled>>
    /\ UNCHANGED cvars

\* Mutant: after the last turn the query is submitted again.
FlaskTimeout_Resubmits ==
    /\ flask.pc = "poll"
    /\ ~(flask.retry < max_retries)
    /\ flask' = [flask EXCEPT !.pc = "post", !.retry = 0, !.status = ""]
    /\ UNCHANGED <<active_tasks, bg, env_key, workspace, reset, last, issued, polled,
                   session>>
    /\ UNCHANGED cvars

\* flask_github_agent.py:83, 119-123  the loop ran out of turns
FlaskTimeout ==
    /\ flask.pc = "poll"
    /\ ~(flask.retry < max_retries)
    /\ Return(flask, "error", TimeoutMsg, "")
    /\ UNCHANGED <<active_tasks, bg, env_key, workspace, reset, last, issued, polled>>
    /\ UNCHANGED cvars

\* Mutant: clear_chat leaves the history as it is.
clear_chat_Noop(sess) == sess

\* flask_github_agent.py:186  session['messages'] = []
clear_chat(sess) == [has |-> TRUE, messages |-> <<>>]

\* flask_github_agent.py:188
ClearChatResponse == [http |-> HTTP_OK, body |-> [status |-> "success"], poll_status |-> ""]

\* flask_github_agent.py:184-188  POST /clear_chat; line 187 marks the session
\* modified, so the response carries the cookie
FlaskClearChat ==
    /\ flask.pc = "idle"
    /\ session' = save_session(session, clear_chat(session), TRUE)
    /\ flask' = [flask EXCEPT !.resp = ClearChatResponse]
    /\ UNCHANGED <<active_tasks, bg, env_key, workspace, reset, last, issued, polled>>
    /\ UNCHANGED cvars

\* api.py:17-19, 85, 193-194  the API server process is started again: the
\* registry and the scheduled tasks live in the memory of the process
ApiRestart ==
    /\ LoopFree
    /\ active_tasks' = EmptyRegistry
    /\ bg' = <<>>
    /\ workspace' = makedirs_exist_ok(workspace)
    /\ last' = [op |-> "none", arg |-> NoArg, http |-> HTTP_OK, body |-> [status |-> "none"]]
    /\ issued' = <<>>
    /\ polled' = [id \in PollIds |-> NotPolled]
    /\ UNCHANGED <<env_key, reset, flask, session>>
    /\ UNCHANGED cvars

----------------------------------------------------------------------------
(* The console MCP client, client.py.  One MCPHttpClient; its coroutines    *)
(* are awaited one after the other.                                         *)

\* aiohttp.ClientSession objects one client creates in a run
MaxSessions == 3

\* the tool lists /list_tools may answer with
ToolLists == {<<"analyze_code">>, <<"analyze_code", "autodeploy">>}

\* client.py:67, 98
NotConnectedMsg == "Not connected to MCP server. Call connect() first."

\* the latest call: its name, the message of the exception it raised ("" when
\* it returned) and the number of requests it sent to the MCP server
Call(op, raised, sent) == [op |-> op, raised |-> raised, sent |-> sent]

\* the longest response of the model, in content blocks
MaxBlocks == 2

\* a content block of a model response: text, or a request to use a tool
Text(t) == [type |-> "text", name |-> "", text |-> t]
ToolUse(n) == [type |-> "tool_use", name |-> n, text |-> ""]

\* the blocks of an initial response, and the follow-up responses
Blocks == {Text("initial"), ToolUse("github_repo"), ToolUse("analyze_code")}
FollowUps == {<<Text("follow_up")>>, <<ToolUse("docker")>>,
              <<Text("follow_up"), ToolUse("github_repo")>>}

\* the sequences over S of length n, and of length at most n
RECURSIVE Tuples(_, _)
Tuples(S, n) ==
    IF n = 0 THEN {<<>>}
    ELSE {Append(t, x) : t \in Tuples(S, n - 1), x \in S}

RECURSIVE UpTo(_, _)
UpTo(S, n) == IF n = 0 THEN {<<>>} ELSE Tuples(S, n) \cup UpTo(S, n - 1)

\* what process_query meets: whether the initial Claude call returns, the
\* content of its response, how the n-th tool call goes and what Claude
\* answers to the n-th follow-up call
Query(api_ok, initial, results, followups) ==
    [api_ok |-> api_ok, initial |-> initial, results |-> results, followups |-> followups]

Queries ==
    {Query(TRUE, i, r, [n \in 1..MaxBlocks |-> f]) :
        i \in UpTo(Blocks, MaxBlocks),
        r \in Tuples({"ok", "non200"}, MaxBlocks),
        f \in FollowUps}

\* text only, a tool call that works, a tool call that fails, or the
\* Anthropic API raising
QueryOutcomes == {"text", "tool_ok", "tool_fails", "anthropic_raises"}

Canned(outcome) ==
    CASE outcome = "text" ->
            Query(TRUE, <<Text("initial")>>, <<"ok">>, <<<<Text("follow_up")>>>>)
      [] outcome = "tool_ok" ->
            Query(TRUE, <<ToolUse("github_repo")>>, <<"ok">>, <<<<Text("follow_up")>>>>)
      [] outcome = "tool_fails" ->
            Query(TRUE, <<ToolUse("github_repo")>>, <<"non200">>, <<<<Text("follow_up")>>>>)
      [] OTHER ->
            Query(FALSE, <<>>, <<"ok">>, <<<<Text("follow_up")>>>>)

\* what a run of process_query did: the calls it made in order (create with
\* or without the tools argument, call_tool by tool name), final_text (each
\* entry by its pieces), the number of tool calls, the exception that left it, whether it returned
Event(ev, arg) == [ev |-> ev, arg |-> arg]

Run(q) ==
    [q |-> q, events |-> <<>>, final_text |-> <<>>, calls |-> 0,
     raised |-> "", returned |-> FALSE]

NoRun == Run(Query(TRUE, <<>>, <<>>, <<>>))

\* client.py:18-22  __init__: no session (0 stands for None), no tools;
\* opened lists the sessions created so far, main is the position of main()
MCPHttpClient ==
    [session |-> 0, tools |-> <<>>, opened |-> <<>>,
     last |-> Call("none", "", 0), main |-> "none", run |-> NoRun]

\* client.py:26  self.session = aiohttp.ClientSession()
open_session(c) ==
    [c EXCEPT !.opened = Append(@, "open"), !.session = Len(c.opened) + 1]

\* the ways connect() fails, and the requests sent by then
ConnectFailures ==
    {"initialize_non200", "initialize_type", "initialize_transport",
     "list_tools_non200", "list_tools_type", "list_tools_transport"}

ConnectSent(outcome) ==
    IF outcome \in {"initialize_non200", "initialize_type", "initialize_transport"}
    THEN 1 ELSE 2

\* client.py:33, 37, 43, 47  the message of the exception
ConnectError(outcome) ==
    CASE outcome = "initialize_non200" -> "Failed to initialize connection: "
      [] outcome = "list_tools_non200" -> "Failed to list tools: "
      [] outcome \in {"initialize_type", "list_tools_type"} -> "Unexpected response type: "
      [] OTHER -> "Cannot connect to host"

\* Mutant: the except clause closes the session but keeps the reference.
on_connect_error_KeepsSession(c, msg, sent) ==
    [c EXCEPT !.opened[c.session] = "closed", !.last = Call("connect", msg, sent)]

\* Mutant: the except clause also forgets the tools.
on_connect_error_ClearsTools(c, msg, sent) ==
    [c EXCEPT !.opened[c.session] = "closed", !.session = 0, !.tools = <<>>,
              !.last = Call("connect", msg, sent)]

\* client.py:52-56  the except clause of connect(): close the session, set
\* self.session to None, raise the exception again
on_connect_error(c, msg, sent) ==
    IF c.session # 0
    THEN [c EXCEPT !.opened[c.session] = "closed", !.session = 0,
                   !.last = Call("connect", msg, sent)]
    ELSE [c EXCEPT !.last = Call("connect", msg, sent)]

\* client.py:24-56  connect(): a new session, GET /initialize, GET /list_tools
connect(c, outcome, tools) ==
    LET c1 == open_session(c) IN
    IF outcome = "ok"
    THEN [c1 EXCEPT !.tools = tools, !.last = Call("connect", "", 2)]
    ELSE on_connect_error(c1, ConnectError(outcome), ConnectSent(outcome))

\* client.py:58-62  close()
close(c) ==
    IF c.session # 0
    THEN [c EXCEPT !.opened[c.session] = "closed", !.session = 0]
    ELSE c

\* client.py:66, 97  if not self.session
not_connected(c) == c.session = 0

\* the ways a call that reached the server ends
CallOutcomes == {"ok", "non200", "error_result", "transport"}

\* client.py:84, 88  the message of the exception
CallError(outcome) ==
    CASE outcome = "ok"           -> ""
      [] outcome = "non200"       -> "Failed to execute tool: "
      [] outcome = "error_result" -> "Unknown error"
      [] OTHER                    -> "Cannot connect to host"

\* client.py:64-93  call_tool()
call_tool(c, outcome) ==
    IF not_connected(c)
    THEN [c EXCEPT !.last = Call("call_tool", NotConnectedMsg, 0)]
    ELSE [c EXCEPT !.last = Call("call_tool", CallError(outcome), 1)]

\* client.py:171-173  the text items of a follow-up response
text_items(response) ==
    LET items == SelectSeq(response, LAMBDA item : item.type = "text")
    IN  [k \in 1..Len(items) |-> <<items[k].text>>]

\* Mutant: the tool_use blocks of the follow-up response are executed too.
on_tool_use_RunsFollowUpTools(c, b, r) ==
    LET n    == r.calls + 1
        t    == call_tool(c, r.q.results[n])
        more == SelectSeq(r.q.followups[n], LAMBDA item : item.type = "tool_use")
    IN  IF t.last.raised # ""
        THEN [r EXCEPT !.events = Append(@, Event("call_tool", b.name)),
                       !.calls = n, !.raised = t.last.raised]
        ELSE [r EXCEPT !.events = @ \o <<Event("call_tool", b.name), Event("create", "no_tools")>>
                                    \o [k \in 1..Len(more) |-> Event("call_tool", more[k].name)],
                       !.calls = n,
                       !.final_text = @ \o <<<<"[Called tool ", b.name, "]">>>> \o text_items(r.q.followups[n])]

\* client.py:129-173  a tool_use block: call_tool (its exception leaves
\* process_query), the note in final_text, the follow-up Claude call without
\* tools, the text items of its response
on_tool_use(c, b, r) ==
    LET n == r.calls + 1
        t == call_tool(c, r.q.results[n])
    IN  IF t.last.raised # ""
        THEN [r EXCEPT !.events = Append(@, Event("call_tool", b.name)),
                       !.calls = n, !.raised = t.last.raised]
        ELSE [r EXCEPT !.events = @ \o <<Event("call_tool", b.name), Event("create", "no_tools")>>,
                       !.calls = n,
                       !.final_text = @ \o <<<<"[Called tool ", b.name, "]">>>> \o text_items(r.q.followups[n])]

\* client.py:126-173  for content in response.content, over the content
\* list of the initial response
RECURSIVE query_loop(_, _, _)
query_loop(c, blocks, r) ==
    IF blocks = <<>> \/ r.raised # "" THEN r
    ELSE LET b == Head(blocks) IN
         IF b.type = "text"
         THEN query_loop(c, Tail(blocks), [r EXCEPT !.final_text = Append(@, <<b.text>>)])
         ELSE query_loop(c, Tail(blocks), on_tool_use(c, b, r))

\* client.py:95-175  process_query(): the guard, the initial Claude call
\* with the tools, the loop over its content, the joined text
process_query(c, q) ==
    IF not_connected(c)
    THEN [c EXCEPT !.last = Call("process_query", NotConnectedMsg, 0),
                   !.run = [Run(q) EXCEPT !.raised = NotConnectedMsg]]
    ELSE LET first == [Run(q) EXCEPT !.events = <<Event("create", "tools")>>]
             r == IF q.api_ok THEN query_loop(c, q.initial, first)
                  ELSE [first EXCEPT !.raised = "anthropic error"]
         IN  [c EXCEPT !.last = Call("process_query", r.raised, r.calls),
                       !.run = IF r.raised = "" THEN [r EXCEPT !.returned = TRUE]
                               ELSE [r EXCEPT !.final_text = <<>>]]

\* a program that holds the client calls connect()
McpConnect(outcome, tools) ==
    /\ mcp.main = "none"
    /\ Len(mcp.opened) < MaxSessions
    /\ mcp' = connect(mcp, outcome, tools)
    /\ UNCHANGED <<avars, st, sup>>

\* ... close()
McpClose ==
    /\ mcp.main = "none"
    /\ mcp' = [close(mcp) EXCEPT !.last = Call("close", "", 0)]
    /\ UNCHANGED <<avars, st, sup>>

\* ... call_tool()
McpCallTool(outcome) ==
    /\ mcp.main = "none"
    /\ mcp' = call_tool(mcp, outcome)
    /\ UNCHANGED <<avars, st, sup>>

\* ... process_query()
McpProcessQuery(outcome) ==
    /\ mcp.main = "none"
    /\ mcp' = process_query(mcp, Canned(outcome))
    /\ UNCHANGED <<avars, st, sup>>

\* ... its first process_query(), whatever Claude and the server answer
McpQuery(q) ==
    /\ mcp.main = "none"
    /\ mcp.run = NoRun
    /\ mcp' = process_query(mcp, q)
    /\ UNCHANGED <<avars, st, sup>>

\* ... connect() while it has no session, and the server answers
QueryConnect(tools) ==
    /\ mcp.session = 0
    /\ McpConnect("ok", tools)

\* client.py:177-189  main() builds its client and calls connect(); an
\* exception goes to the except clause (line 204) and on to finally
MainConnect(outcome, tools) ==
    /\ mcp = MCPHttpClient
    /\ LET c == connect(mcp, outcome, tools) IN
       mcp' = [c EXCEPT !.main = IF c.last.raised = "" THEN "loop" ELSE "finally"]
    /\ UNCHANGED <<avars, st, sup>>

\* client.py:197-199  the user types quit
MainQuit ==
    /\ mcp.main = "loop"
    /\ mcp' = [mcp EXCEPT !.main = "finally", !.last = Call("input", "", 0)]
    /\ UNCHANGED <<avars, st, sup>>

\* Mutant: a failed query is reported inside the loop, which goes on.
MainQuery_KeepsPrompting(outcome) ==
    /\ mcp.main = "loop"
    /\ mcp' = process_query(mcp, Canned(outcome))
    /\ UNCHANGED <<avars, st, sup>>

\* client.py:196-205  the user types a query: process_query(); an exception
\* leaves the loop through the except clause
MainQuery(outcome) ==
    /\ mcp.main = "loop"
    /\ LET c == process_query(mcp, Canned(outcome)) IN
       mcp' = [c EXCEPT !.main = IF c.last.raised = "" THEN "loop" ELSE "finally"]
    /\ UNCHANGED <<avars, st, sup>>

\* Mutant: main returns without closing the client.
MainFinally_NoClose ==
    /\ mcp.main = "finally"
    /\ mcp' = [mcp EXCEPT !.main = "returned"]
    /\ UNCHANGED <<avars, st, sup>>

\* client.py:206-207  finally: await client.close(); main returns
MainFinally ==
    /\ mcp.main = "finally"
    /\ mcp' = [close(mcp) EXCEPT !.main = "returned"]
    /\ UNCHANGED <<avars, st, sup>>

----------------------------------------------------------------------------
(* The Streamlit MCP client, streamlit/app.py:21-86 *)

\* the latest call: its name, the state of the shared session when the call
\* reached its request ("none" when it did not), whether it returned True or
\* False or raised, and its message
StCall(op, at_request, ok, msg) ==
    [op |-> op, at_request |-> at_request, ok |-> ok, msg |-> msg]

\* streamlit/app.py:22-27, 41-44  the session state of a new browser session;
\* cached is the aiohttp session st.cache_resource keeps ("none" before the
\* first call of get_aiohttp_session)
StreamlitStart ==
    [cached |-> "none", is_connected |-> FALSE, tools |-> <<>>, server_url |-> "",
     last |-> StCall("none", "none", "none", ""),
     chat_history |-> <<>>, sent |-> <<>>]

\* streamlit/app.py:41-44  the function body runs on the first call only;
\* later calls get the object of the first
get_aiohttp_session(cached) == IF cached = "none" THEN "open" ELSE cached

\* streamlit/app.py:50, 71  leaving `async with session` closes the session
aexit(sess) == "closed"

\* the ways a request that was sent ends
StOutcomes == {"ok", "non200", "error_result", "client_error"}

\* streamlit/app.py:47-62  connect_to_server(); a request on a closed session
\* raises RuntimeError, which the except clause (line 61) does not catch
connect_to_server(s, outcome, tools) ==
    LET sess == get_aiohttp_session(s.cached) IN
    IF sess = "closed"
    THEN [s EXCEPT !.cached = aexit(sess),
                   !.last = StCall("connect_to_server", sess, "raised", "Session is closed")]
    ELSE CASE outcome \in {"ok", "error_result"} ->
                 [s EXCEPT !.cached = aexit(sess), !.tools = tools,
                           !.is_connected = TRUE, !.server_url = "server_url",
                           !.last = StCall("connect_to_server", sess, "true",
                                           "Connected successfully")]
           [] outcome = "non200" ->
                 [s EXCEPT !.cached = aexit(sess),
                           !.last = StCall("connect_to_server", sess, "false",
                                           "Failed to connect: ")]
           [] OTHER ->
                 [s EXCEPT !.cached = aexit(sess),
                           !.last = StCall("connect_to_server", sess, "false",
                                           "Error connecting to server: ")]

\* streamlit/app.py:65-86  execute_tool()
execute_tool(s, outcome) ==
    IF ~s.is_connected
    THEN [s EXCEPT !.last = StCall("execute_tool", "none", "false",
                                   "Not connected to any server")]
    ELSE LET sess == get_aiohttp_session(s.cached) IN
         IF sess = "closed"
         THEN [s EXCEPT !.cached = aexit(sess),
                        !.last = StCall("execute_tool", sess, "raised", "Session is closed")]
         ELSE [s EXCEPT !.cached = aexit(sess),
                        !.last = StCall("execute_tool", sess,
                                        IF outcome = "ok" THEN "true" ELSE "false",
                                        CASE outcome = "ok" -> "content"
                                          [] outcome = "error_result" -> "Unknown error"
                                          [] outcome = "non200" -> "Failed to execute tool: "
                                          [] OTHER -> "Error executing tool: ")]

\* streamlit/app.py:201  asyncio.run(connect_to_server(server_url_input))
StConnect(outcome, tools) ==
    /\ st' = connect_to_server(st, outcome, tools)
    /\ st' # st
    /\ UNCHANGED <<avars, mcp, sup>>

\* streamlit/app.py:221, 278, 355  asyncio.run(execute_tool(...))
StExecuteTool(outcome) ==
    /\ st' = execute_tool(st, outcome)
    /\ st' # st
    /\ UNCHANGED <<avars, mcp, sup>>

\* chat inputs of one Streamlit session
MaxChats == 2

\* what the call of Claude gives: no client (no API key), plain text, a tool
\* request, or an exception
ChatOutcomes == {"no_key", "text", "tool", "raises"}

\* streamlit/app.py:94-98, 127  the roles of the messages process_query sends:
\* those of chat_history, then the query as one more user message
formatted_roles(history) ==
    [k \in 1..Len(history) |-> IF history[k].is_user THEN "user" ELSE "assistant"]
        \o <<"user">>

\* streamlit/app.py:89-177  process_query(): the session state afterwards and
\* the response; an exception of execute_tool is caught on line 176
st_process_query(s, outcome) ==
    IF outcome = "no_key"
    THEN [s |-> s, response |-> "Please set your Anthropic API key in the .env file."]
    ELSE LET s1 == [s EXCEPT !.sent = formatted_roles(s.chat_history)]
             s2 == execute_tool(s1, "ok")
         IN  CASE outcome = "text"   -> [s |-> s1, response |-> "claude_response"]
               [] outcome = "raises" -> [s |-> s1, response |-> "Error processing query: "]
               [] OTHER ->
                    [s |-> s2,
                     response |-> CASE s2.last.ok = "true"  -> "tool_result"
                                    [] s2.last.ok = "false" -> "Error executing tool: "
                                    [] OTHER -> "Error processing query: "]

\* streamlit/app.py:369-389  the chat input handler
chat_input(s, prompt, outcome) ==
    LET s1 == [s EXCEPT !.chat_history =
                  Append(@, [is_user |-> TRUE, content |-> prompt])]
        r  == st_process_query(s1, outcome)
    IN  IF s1.is_connected
        THEN [r.s EXCEPT !.chat_history =
                  Append(@, [is_user |-> FALSE, content |-> r.response])]
        ELSE s1

\* the chat inputs made so far
ChatInputs(s) == Len(SelectSeq(s.chat_history, LAMBDA m : m.is_user))

\* streamlit/app.py:369  the user enters a message
StChatInput(prompt, outcome) ==
    /\ ChatInputs(st) < MaxChats
    /\ st' = chat_input(st, prompt, outcome)
    /\ UNCHANGED <<avars, mcp, sup>>

----------------------------------------------------------------------------
(* The start script, start_github_agent.py:37-102 *)

\* a child process: not started ("none"), running or exited; whether
\* terminate() was called on it and whether wait() returned for it
NoChild == [state |-> "none", terminated |-> FALSE, waited |-> FALSE]

\* subprocess.Popen(...)
Popen == [state |-> "running", terminated |-> FALSE, waited |-> FALSE]

\* Popen.poll() is not None
has_exited(child) == child.state = "exited"

\* Popen.terminate()
terminate(child) == [child EXCEPT !.terminated = TRUE]

Children == {"api", "flask"}

\* start_github_agent.py:37  main() is about to run
StartScript ==
    [pc |-> "start", api |-> NoChild, flask |-> NoChild, interrupted |-> FALSE]

\* main() is over: it returned, or an exception left it
Ended == {"returned", "raised"}

\* start_github_agent.py:41-51  the workspace is set up, the API server is started
SupStartApi ==
    /\ sup.pc = "start"
    /\ sup' = [sup EXCEPT !.pc = "sleep3", !.api = Popen]
    /\ UNCHANGED <<avars, mcp, st>>

\* start_github_agent.py:53-69  after the wait: return if the API server has
\* exited, else start the Flask app
SupCheckApi ==
    /\ sup.pc = "sleep3"
    /\ sup' = IF has_exited(sup.api)
              THEN [sup EXCEPT !.pc = "returned"]
              ELSE [sup EXCEPT !.pc = "sleep2", !.flask = Popen]
    /\ UNCHANGED <<avars, mcp, st>>

\* start_github_agent.py:72-77  the second wait, the browser, into the loop
SupOpenBrowser ==
    /\ sup.pc = "sleep2"
    /\ sup' = [sup EXCEPT !.pc = "loop"]
    /\ UNCHANGED <<avars, mcp, st>>

\* start_github_agent.py:79-91  one turn of the supervision loop
SupLoop ==
    /\ sup.pc = "loop"
    /\ sup' = CASE has_exited(sup.api) ->
                     [sup EXCEPT !.flask = terminate(@), !.pc = "returned"]
                [] has_exited(sup.flask) ->
                     [sup EXCEPT !.api = terminate(@), !.pc = "returned"]
                [] OTHER -> sup
    /\ sup' # sup
    /\ UNCHANGED <<avars, mcp, st>>

\* KeyboardInterrupt reaches main(): inside the try block (lines 77-91) the
\* except clause takes it, anywhere else it leaves main()
SupInterrupt ==
    /\ sup.pc \notin Ended \cup {"start"}
    /\ sup' = [sup EXCEPT !.interrupted = TRUE,
                          !.pc = IF sup.pc = "loop" THEN "except" ELSE "raised"]
    /\ UNCHANGED <<avars, mcp, st>>

\* start_github_agent.py:92-96  both children are terminated
SupTerminateBoth ==
    /\ sup.pc = "except"
    /\ sup' = [sup EXCEPT !.api = terminate(@), !.flask = terminate(@), !.pc = "wait_api"]
    /\ UNCHANGED <<avars, mcp, st>>

\* start_github_agent.py:99  api_process.wait() returns once the child has exited
SupWaitApi ==
    /\ sup.pc = "wait_api"
    /\ has_exited(sup.api)
    /\ sup' = [sup EXCEPT !.api.waited = TRUE, !.pc = "wait_flask"]
    /\ UNCHANGED <<avars, mcp, st>>

\* start_github_agent.py:100-102  flask_process.wait(), then main() returns
SupWaitFlask ==
    /\ sup.pc = "wait_flask"
    /\ has_exited(sup.flask)
    /\ sup' = [sup EXCEPT !.flask.waited = TRUE, !.pc = "returned"]
    /\ UNCHANGED <<avars, mcp, st>>

\* a child process exits, by itself or because it was terminated
ChildExits(c) ==
    /\ sup[c].state = "running"
    /\ sup' = [sup EXCEPT ![c].state = "exited"]
    /\ UNCHANGED <<avars, mcp, st>>

----------------------------------------------------------------------------
(* The server *)

Texts == {"list files"}

\* api.py:13-19, 85: the module is loaded; the key comes from the process
\* environment or .env, the workspace directory exists (os.makedirs with
\* exist_ok) with whatever an earlier run left in it, the registry is empty.
Init ==
    /\ active_tasks = EmptyRegistry
    /\ bg = <<>>
    /\ env_key \in {"unset", "empty", "set"}
    /\ \E fs \in SUBSET Files : workspace = makedirs_exist_ok([exists |-> TRUE, files |-> fs])
    /\ reset = [pc |-> "idle", prior |-> "none", raced |-> FALSE]
    /\ last = [op |-> "none", arg |-> NoArg, http |-> HTTP_OK, body |-> [status |-> "none"]]
    /\ issued = <<>>
    /\ polled = [id \in PollIds |-> NotPolled]
    /\ flask = FlaskIdle
    /\ session = NoSession
    /\ mcp = MCPHttpClient
    /\ st = StreamlitStart
    /\ sup = StartScript

Next ==
    \/ \E text \in Texts : CreateQuery(text)
    \/ \E id \in PollIds : GetResult(id)
    \/ \E i \in 1..(2 * MaxTasks) : RunAgentStart(i)
    \/ \E i \in 1..(2 * MaxTasks), out \in Outputs : AgentReturns(i, out)
    \/ \E i \in 1..(2 * MaxTasks), msg \in ExcMsgs : AgentRaises(i, msg)
    \/ \E i \in 1..(2 * MaxTasks), f \in Files : ToolWrite(i, f)
    \/ WorkspaceInfo
    \/ ResetBegin
    \/ ResetRmtree
    \/ ResetRmtreeFails
    \/ ResetMakedirs
    \/ ResetMakedirsFails

Spec == Init /\ [][Next]_vars

\* The start of the specifications of the clients: none of their actions
\* reads or writes what is in the workspace directory, which starts empty
FrontInit == Init /\ workspace.files = {}

\* The chat front end as the only client of the API server
FlaskNext ==
    \/ \E form \in Forms : FlaskQueryEmpty(form)
    \/ \E form \in Forms : FlaskQueryBegin(form_get(form))
    \/ FlaskPostOk
    \/ \E kind \in Failures : FlaskPostFails(kind)
    \/ FlaskPoll
    \/ \E kind \in Failures : FlaskPollFails(kind)
    \/ FlaskTimeout
    \/ \E i \in 1..MaxTasks : RunAgentStart(i)
    \/ \E i \in 1..MaxTasks, out \in Outputs : AgentReturns(i, out)
    \/ \E i \in 1..MaxTasks, msg \in ExcMsgs : AgentRaises(i, msg)
    \/ ApiRestart

FlaskSpec == FrontInit /\ [][FlaskNext]_vars

\* The chat front end with its clear button, against an API server that
\* stays up
ChatNext ==
    \/ \E form \in Forms : FlaskQueryEmpty(form)
    \/ \E form \in Forms : FlaskQueryBegin(form_get(form))
    \/ FlaskPostOk
    \/ \E kind \in Failures : FlaskPostFails(kind)
    \/ FlaskPoll
    \/ \E kind \in Failures : FlaskPollFails(kind)
    \/ FlaskTimeout
    \/ FlaskClearChat
    \/ \E i \in 1..MaxTasks : RunAgentStart(i)
    \/ \E i \in 1..MaxTasks, out \in Outputs : AgentReturns(i, out)
    \/ \E i \in 1..MaxTasks, msg \in ExcMsgs : AgentRaises(i, msg)

ChatSpec == FrontInit /\ [][ChatNext]_vars

\* The console client of the MCP server: a program using one MCPHttpClient,
\* or main()
McpNext ==
    \/ \E outcome \in {"ok"} \cup ConnectFailures, tools \in ToolLists :
          McpConnect(outcome, tools)
    \/ McpClose
    \/ \E outcome \in CallOutcomes : McpCallTool(outcome)
    \/ \E outcome \in QueryOutcomes : McpProcessQuery(outcome)
    \/ \E outcome \in {"ok"} \cup ConnectFailures, tools \in ToolLists :
          MainConnect(outcome, tools)
    \/ MainQuit
    \/ \E outcome \in QueryOutcomes : MainQuery(outcome)
    \/ MainFinally

McpSpec == FrontInit /\ [][McpNext]_vars

\* One Streamlit session: the connect button, the tool forms, the chat input
StreamlitNext ==
    \/ \E outcome \in StOutcomes, tools \in ToolLists : StConnect(outcome, tools)
    \/ \E outcome \in StOutcomes : StExecuteTool(outcome)
    \/ \E prompt \in Texts, outcome \in ChatOutcomes : StChatInput(prompt, outcome)

StreamlitSpec == FrontInit /\ [][StreamlitNext]_vars

\* process_query against every response of the model and of the server, in
\* a program that connects only while it has no session
QueryNext ==
    \/ \E tools \in ToolLists : QueryConnect(tools)
    \/ McpClose
    \/ \E q \in Queries : McpQuery(q)

QuerySpec == FrontInit /\ [][QueryNext]_vars

\* The start script and its two children
StartNext ==
    \/ SupStartApi
    \/ SupCheckApi
    \/ SupOpenBrowser
    \/ SupLoop
    \/ SupInterrupt
    \/ SupTerminateBoth
    \/ SupWaitApi
    \/ SupWaitFlask
    \/ \E c \in Children : ChildExits(c)

StartSpec == FrontInit /\ [][StartNext]_vars

----------------------------------------------------------------------------
(* Properties *)

IssuedSet == {issued[k] : k \in DOMAIN issued}

\* the background tasks that have not yet written their record
Unwritten == {i \in DOMAIN bg : bg[i].pc \in {"scheduled", "awaiting"}}

\* C1: no identifier is issued twice: every identifier create_query returned
\* differs from every identifier an earlier create_query returned.
C1_IdentifiersUnique ==
    \A j, k \in DOMAIN issued : j # k => issued[j] # issued[k]

\* C1 witness: a second submission made after the first task completed and
\* was polled.
C1_Witness ==
    /\ Len(issued) = 2
    /\ last.op = "create_query"
    /\ last.arg = issued[2]
    /\ Terminal(active_tasks[issued[1]])
    /\ polled[issued[1]].n > 0
    /\ issued[1] # issued[2]

\* C2: from the submission until run_agent writes, the record of the new
\* identifier is {processing, None}, so a poll returns processing and never
\* not_found; create_query answers {query_id, processing} with the record
\* already inserted and run_agent not yet started.
C2_ProcessingUntilWritten ==
    /\ \A i \in Unwritten :
          get_result(active_tasks, bg[i].query_id).body
              = [status |-> "processing", result |-> None]
    /\ last.op = "create_query" =>
          /\ last.http = HTTP_OK
          /\ last.body = [query_id |-> last.arg, status |-> "processing"]
          /\ last.arg \in DOMAIN active_tasks
          /\ \E i \in DOMAIN bg : bg[i].query_id = last.arg

\* C2 witness: run_agent is suspended in the agent call and a poll of its
\* identifier has just returned processing.
C2_Witness ==
    /\ last.op = "get_result"
    /\ last.body = [status |-> "processing", result |-> None]
    /\ \E i \in DOMAIN bg : bg[i].query_id = last.arg /\ bg[i].pc = "awaiting"

\* C3: a record changes only from processing to completed or error; once it
\* is completed or error no step changes its status or result or removes it.
C3_TerminalIsFinal ==
    [][\A id \in DOMAIN active_tasks :
          /\ id \in DOMAIN active_tasks'
          /\ Terminal(active_tasks[id]) => active_tasks'[id] = active_tasks[id]
          /\ active_tasks'[id] # active_tasks[id] =>
                /\ active_tasks[id].status = "processing"
                /\ Terminal(active_tasks'[id])]_vars

\* C3 witness: after a record became terminal it was polled, a second task
\* was submitted and ran, and the workspace was reset.
C3_Witness ==
    /\ Len(issued) = 2
    /\ Terminal(active_tasks[issued[1]])
    /\ polled[issued[1]].n > 0
    /\ Terminal(active_tasks[issued[2]])
    /\ last.op = "reset_workspace"

\* C4: get_result for an identifier never issued answers 200 with exactly
\* {status: not_found} and leaves the registry as it was.
C4_UnknownIsNotFound ==
    [][\A id \in PollIds :
          (GetResult(id) /\ id \notin IssuedSet) =>
              /\ last'.http = HTTP_OK
              /\ last'.body = [status |-> "not_found"]
              /\ active_tasks' = active_tasks]_vars

\* C4 witness: with records in the registry, a poll of an identifier never
\* issued has returned not_found.
C4_Witness ==
    /\ last.op = "get_result"
    /\ last.arg \notin IssuedSet
    /\ last.body = [status |-> "not_found"]
    /\ Len(issued) > 0
    /\ DOMAIN active_tasks = IssuedSet

\* C5: with ANTHROPIC_API_KEY absent, a run_agent that has run has returned
\* normally without calling the agent and has set its record to error with a
\* result containing " not found in .env file"; its submission had succeeded.
C5_MissingKeyIsError ==
    env_key = "unset" =>
        \A i \in DOMAIN bg :
            /\ bg[i].query_id \in IssuedSet
            /\ bg[i].calls = 0
            /\ bg[i].pc \in {"scheduled", "returned"}
            /\ bg[i].pc = "returned" =>
                  /\ active_tasks[bg[i].query_id].status = "error"
                  /\ Contains(active_tasks[bg[i].query_id].result, " not found in .env file")

\* C5 witness: without the key a task has run and a poll shows its error.
C5_Witness ==
    /\ env_key = "unset"
    /\ last.op = "get_result"
    /\ last.body.status = "error"
    /\ \E i \in DOMAIN bg : bg[i].query_id = last.arg /\ bg[i].pc = "returned"

RunAgentStep(i) ==
    \/ RunAgentStart(i)
    \/ \E out \in Outputs : AgentReturns(i, out)
    \/ \E msg \in ExcMsgs : AgentRaises(i, msg)

\* Scheduling of the event loop: a file system call of reset_workspace ends,
\* so the loop is free again and again; a run_agent that is ready to start is
\* then eventually run (the loop serves its ready tasks in turn) and each
\* agent call eventually returns or raises.  The fairness is strong because
\* a reset_workspace in progress disables the step for a while.
Fairness ==
    /\ \A i \in 1..MaxTasks : SF_vars(RunAgentStep(i))
    /\ WF_vars(ResetRmtree \/ ResetRmtreeFails \/ ResetMakedirs \/ ResetMakedirsFails)

\* The steps of Next that write the registry, the tasks or the workspace,
\* and the polls; workspace_info, which only answers, is left out
LiveNext ==
    \/ \E text \in Texts : CreateQuery(text)
    \/ \E id \in PollIds : GetResult(id)
    \/ \E i \in 1..(2 * MaxTasks) : RunAgentStart(i)
    \/ \E i \in 1..(2 * MaxTasks), out \in Outputs : AgentReturns(i, out)
    \/ \E i \in 1..(2 * MaxTasks), msg \in ExcMsgs : AgentRaises(i, msg)
    \/ \E i \in 1..(2 * MaxTasks), f \in Files : ToolWrite(i, f)
    \/ ResetBegin
    \/ ResetRmtree
    \/ ResetRmtreeFails
    \/ ResetMakedirs
    \/ ResetMakedirsFails

LiveSpec == Init /\ [][LiveNext]_vars /\ Fairness

C8_TerminalPollIdempotent ==
    [][\A id \in PollIds :
          (GetResult(id) /\ id \in DOMAIN active_tasks /\ Terminal(active_tasks[id])) =>
              /\ active_tasks' = active_tasks
              /\ last'.body = active_tasks[id]
              /\ polled[id].n > 0 => last'.body = polled[id].first]_vars

\* C8 witness: a terminal record has been polled more than once, with the
\* same answer, the last poll being the latest response.
C8_Witness ==
    /\ last.op = "get_result"
    /\ polled[last.arg].n = 2
    /\ last.body = polled[last.arg].first
    /\ Terminal(last.body)

\* the step in which reset_workspace returns
ResetReturns == reset.pc # "idle" /\ reset'.pc = "idle"

\* C9 as stated: after reset_workspace returns, the workspace directory
\* exists and is empty.
C9_AlwaysPresentAndEmpty ==
    [][ResetReturns => (workspace'.exists /\ workspace'.files = {})]_vars

\* C9 amended: when reset_workspace returns success the workspace directory
\* exists, and it is empty unless a tool wrote to it during the call,
\* whatever its state before the call; the answer is error exactly when
\* deleting or recreating the directory raised.
C9_SuccessPresentAndEmpty ==
    [][ResetReturns =>
          /\ last'.op = "reset_workspace"
          /\ last'.body.status = "success" =>
                /\ workspace'.exists
                /\ ~reset.raced => workspace'.files = {}
          /\ last'.body.status = "success" <=> ResetMakedirs]_vars

\* C9 witness: a reset of a populated workspace returned success and left
\* the directory present and empty.
C9_Witness ==
    /\ last = ResetSuccess
    /\ reset.pc = "idle" /\ reset.prior = "populated" /\ ~reset.raced
    /\ workspace = [exists |-> TRUE, files |-> {}]

\* a step of reset_workspace
ResetStep == reset'.pc # reset.pc

\* C10: no step of reset_workspace adds, removes or modifies a record.
C10_ResetKeepsRegistry ==
    [][ResetStep => active_tasks' = active_tasks]_vars

\* C10 witness: a reset returned while one task was in processing and
\* another terminal; both records are in the registry.
C10_Witness ==
    /\ last.op = "reset_workspace"
    /\ reset.pc = "idle"
    /\ Len(issued) = 2
    /\ DOMAIN active_tasks = IssuedSet
    /\ Terminal(active_tasks[issued[1]])
    /\ active_tasks[issued[2]].status = "processing"
    /\ \E i \in DOMAIN bg : bg[i].query_id = issued[2] /\ bg[i].pc = "awaiting"

----------------------------------------------------------------------------
(* Properties of the registry and of reset_workspace, continued *)

\* C12: every record's status is processing, completed or error; its result
\* is None exactly while it is processing, the agent's output when it is
\* completed, and a message starting with "Error: " when it is error.
C12_RecordShape ==
    \A id \in DOMAIN active_tasks :
        LET rec == active_tasks[id] IN
        /\ rec.status \in {"processing", "completed", "error"}
        /\ rec.result = None <=> rec.status = "processing"
        /\ rec.status = "completed" => \E out \in Outputs : rec.result = Str(<<out>>)
        /\ rec.status = "error" => StartsWith(rec.result, "Error: ")

\* C12 witness: the registry holds a completed record and an error record
\* made from an exception of the agent call.
C12_Witness ==
    /\ \E id \in DOMAIN active_tasks : active_tasks[id].status = "completed"
    /\ \E id \in DOMAIN active_tasks, msg \in ExcMsgs :
          active_tasks[id] = [status |-> "error", result |-> Str(<<"Error: ", msg>>)]

\* C13: the registry holds exactly one record per submission made so far
\* (no record is ever removed, every submission adds one).
C13_OneRecordPerSubmission ==
    /\ Cardinality(DOMAIN active_tasks) = Len(issued)
    /\ DOMAIN active_tasks = IssuedSet

\* C13 witness: two submissions, both run to the end, polled repeatedly and
\* followed by a reset.
C13_Witness ==
    /\ Len(issued) = 2
    /\ Cardinality(DOMAIN active_tasks) = 2
    /\ \A id \in IssuedSet : Terminal(active_tasks[id]) /\ polled[id].n = 2
    /\ last.op = "reset_workspace"

\* C17: reset_workspace always answers normally with status success or
\* error; when deleting or recreating the directory raised, the answer is
\* status error with a message.
C17_ResetAnswersInBand ==
    [][ResetReturns =>
          /\ last'.op = "reset_workspace"
          /\ last'.http = HTTP_OK
          /\ last'.body.status \in {"success", "error"}
          /\ (ResetRmtreeFails \/ ResetMakedirsFails) =>
                /\ last'.body.status = "error"
                /\ StartsWith(last'.body.message, "Error resetting workspace: ")
                /\ Len(last'.body.message.text) = 2]_vars

\* C17 witness: recreating the directory raised and the handler answered
\* with status error.
C17_Witness ==
    /\ last = ResetError("makedirs failed")
    /\ reset.pc = "idle"
    /\ ~workspace.exists

\* C19: no two background operations have the same registry key, the keys
\* are the identifiers issued, and every record is what its own operation
\* made of it: processing until that operation writes, then its outcome.
C19_OneWriterPerKey ==
    /\ Len(bg) = Len(issued)
    /\ \A i \in DOMAIN bg : bg[i].query_id = issued[i]
    /\ \A i, j \in DOMAIN bg : i # j => bg[i].query_id # bg[j].query_id
    /\ \A i \in DOMAIN bg :
          LET rec == active_tasks[bg[i].query_id] IN
          /\ i \in Unwritten => rec = NewRecord
          /\ (bg[i].pc = "returned" /\ bg[i].exc # "") => rec = ErrorRecord(bg[i].exc)
          /\ (bg[i].pc = "returned" /\ bg[i].exc = "" /\ bg[i].calls = 1) =>
                rec.status = "completed"
          /\ (bg[i].pc = "returned" /\ bg[i].calls = 0) => rec = KeyMissingRecord

\* C19 witness: the second task has written its result while the first,
\* submitted earlier, is still suspended in its agent call.
C19_Witness ==
    /\ Len(bg) = 2
    /\ bg[1].pc = "awaiting"
    /\ bg[2].pc = "returned"
    /\ active_tasks[bg[1].query_id] = NewRecord
    /\ Terminal(active_tasks[bg[2].query_id])

IsList(x) == DOMAIN x = 1..Len(x)

C20_SuccessMeansEmpty ==
    [][(ResetReturns /\ last'.body.status = "success") =>
          (workspace'.exists /\ workspace'.files = {})]_vars

\* C20 amended: whenever reset_workspace returns success the workspace
\* directory exists; what it then holds was written by a tool during the
\* call, after the deletion (nothing, when no tool wrote).
C20_SuccessHoldsOnlyRacedWrites ==
    [][ResetMakedirs =>
          /\ workspace'.exists
          /\ workspace'.files # {} =>
                /\ reset.raced
                /\ workspace.exists
                /\ workspace'.files = workspace.files]_vars

\* C20 witness: a reset of a populated directory returned success although
\* a tool wrote during the call, and the directory is not empty.
C20_Witness ==
    /\ last = ResetSuccess
    /\ reset.pc = "idle"
    /\ reset.raced
    /\ reset.prior = "populated"
    /\ workspace.exists
    /\ workspace.files # {}

----------------------------------------------------------------------------
(* Properties of the chat front end, under FlaskSpec *)

\* C11: the polling loop of /query issues at most 60 polls for a submitted
\* task; once 60 polls have reported processing the request can only return
\* the error "Error: Timed out waiting for response from agent", and that
\* return leaves the registry and the background tasks as they are: the
\* record of the task is processing unless its background operation has
\* returned.
C11_SixtyPollsThenTimeout ==
    [][/\ flask'.polls <= 60
       /\ (flask.pc = "poll" /\ flask.polls = 60 /\ flask' # flask) =>
             /\ flask'.pc = "idle"
             /\ flask'.resp.http = HTTP_OK
             /\ flask'.resp.body = [status |-> "error", message |-> TimeoutMsg]
             /\ TimeoutMsg.text[2] = "Timed out waiting for response from agent"
             /\ active_tasks' = active_tasks
             /\ bg' = bg
             /\ flask.query_id \in DOMAIN active_tasks =>
                   \/ active_tasks'[flask.query_id].status = "processing"
                   \/ \E i \in DOMAIN bg : /\ bg[i].query_id = flask.query_id
                                           /\ bg[i].pc = "returned"]_vars

\* C11 witness: a request has returned the timeout error and the record of
\* its task is still processing.
C11_Witness ==
    /\ flask.pc = "idle"
    /\ flask.resp.http = HTTP_OK
    /\ flask.resp.body.message = TimeoutMsg
    /\ flask.query_id \in DOMAIN active_tasks
    /\ active_tasks[flask.query_id].status = "processing"

\* C14: the not_found outcome of a poll is never reported as an error:
\* get_result answers not_found for an identifier the registry does not hold,
\* and a /query response that reports a not_found poll does not have status
\* error.
C14_NotFoundNeverError ==
    /\ \A id \in PollIds :
          id \notin DOMAIN active_tasks =>
             get_result(active_tasks, id).body.status = "not_found"
    /\ flask.resp.poll_status = "not_found" => flask.resp.body.status # "error"

Alternates(msgs) ==
    \A k \in DOMAIN msgs : msgs[k].role = IF k % 2 = 1 THEN "user" ELSE "assistant"

\* C15: every /query request with a non-empty query appends one user message
\* and then one assistant message on every exit path: between requests the
\* stored history holds two messages per request, alternating user and
\* assistant, and ends with the message of the latest response; during a
\* request the history of the request is the stored one plus the user message.
C15_HistoryAlternates ==
    /\ Alternates(session.messages)
    /\ flask.pc = "idle" =>
          /\ Len(session.messages) = 2 * flask.requests
          /\ (flask.requests > 0 /\ flask.resp.http = HTTP_OK) =>
                /\ session.messages[Len(session.messages)].content = flask.resp.body.message
                /\ flask.resp.body.status = "error" =>
                      StartsWith(flask.resp.body.message, "Error: ")
    /\ flask.pc # "idle" =>
          /\ Alternates(flask.sess.messages)
          /\ Len(flask.sess.messages) = 2 * flask.requests - 1
          /\ SubSeq(flask.sess.messages, 1, Len(session.messages)) = session.messages
          /\ flask.sess.messages[Len(flask.sess.messages)] =
                [role |-> "user", content |-> Str(<<flask.query>>)]

\* C15 witness: a request refused by the server's port, then a request that
\* succeeded; the history holds both.
C15_Witness ==
    /\ flask.pc = "idle"
    /\ Len(session.messages) = 4
    /\ session.messages[2] = [role |-> "assistant", content |-> ConnectMsg]
    /\ flask.resp.http = HTTP_OK
    /\ flask.resp.body.status = "success"
    /\ session.messages[4].content = flask.resp.body.message

\* C16: nothing is retried: a /query request sends its one POST /query before
\* it polls and none afterwards, whatever the outcome, and run_agent calls
\* the agent at most once per task.
C16_NothingRetried ==
    /\ flask.posts <= 1
    /\ flask.pc = "post" => flask.posts = 0
    /\ (flask.pc = "poll" \/ (flask.pc = "idle" /\ flask.requests > 0)) => flask.posts = 1
    /\ Len(issued) <= flask.requests
    /\ \A i \in DOMAIN bg : bg[i].calls <= 1

\* C16 witness: a request whose task failed in the agent has returned the
\* task's error after one submission and one call of the agent.
C16_Witness ==
    /\ flask.pc = "idle"
    /\ flask.resp.poll_status = "error"
    /\ flask.resp.body.status = "error"
    /\ flask.posts = 1
    /\ \E i \in DOMAIN bg : /\ bg[i].query_id = flask.query_id
                            /\ bg[i].calls = 1
                            /\ bg[i].exc \in ExcMsgs

----------------------------------------------------------------------------
(* Further properties of the API server, under Spec *)

\* C21: the k-th submission since process start returns the identifier
\* "query_k" (the first "query_1"): each create_query answers with the
\* registry size before the insertion plus one.
C21_KthSubmissionIsQueryK ==
    [][/\ \A k \in DOMAIN issued' : issued'[k] = <<"query_", k>>
       /\ \A text \in Texts :
             CreateQuery(text) =>
                /\ last'.body.query_id = <<"query_", Cardinality(DOMAIN active_tasks) + 1>>
                /\ Cardinality(DOMAIN active_tasks') = Cardinality(DOMAIN active_tasks) + 1
                /\ issued' = Append(issued, last'.body.query_id)]_vars

\* C21 witness: the second submission has returned query_2.
C21_Witness ==
    /\ Len(issued) = 2
    /\ last.op = "create_query"
    /\ last.body.query_id = <<"query_", 2>>
    /\ issued[1] = <<"query_", 1>>

\* C23: get_result and workspace_info change neither the registry nor the
\* workspace directory, whatever the state they are called in.
C23_ReadOnlyEndpoints ==
    [][((\E id \in PollIds : GetResult(id)) \/ WorkspaceInfo) =>
          /\ active_tasks' = active_tasks
          /\ workspace' = workspace
          /\ bg' = bg]_vars

\* C23 witness: workspace_info has answered for a missing directory while a
\* terminal record that was polled is in the registry.
C23_Witness ==
    /\ last.op = "workspace_info"
    /\ ~workspace.exists
    /\ \E id \in DOMAIN active_tasks : Terminal(active_tasks[id]) /\ polled[id].n > 0

----------------------------------------------------------------------------
(* Further properties of the chat front end *)

\* C22: a turn of the polling loop is taken only while every earlier poll of
\* the request reported processing; a completed poll ends the request with
\* {status: success, message: result}, an error poll with {status: error,
\* message: result}, a not_found poll ends it too, and a processing poll
\* leaves the request polling with one more turn counted.
C22_StopsAtFirstTerminalPoll ==
    [][FlaskPoll =>
          LET r == get_result(active_tasks, flask.query_id).body IN
          /\ flask.status \in {"", "processing"}
          /\ r.status = "completed" =>
                /\ flask'.pc = "idle"
                /\ flask'.resp.http = HTTP_OK
                /\ flask'.resp.body = [status |-> "success", message |-> r.result]
                /\ r.result = active_tasks[flask.query_id].result
          /\ r.status = "error" =>
                /\ flask'.pc = "idle"
                /\ flask'.resp.http = HTTP_OK
                /\ flask'.resp.body = [status |-> "error", message |-> r.result]
                /\ r.result = active_tasks[flask.query_id].result
          /\ r.status = "not_found" => flask'.pc = "idle"
          /\ r.status = "processing" =>
                /\ flask'.pc = "poll"
                /\ flask'.retry = flask.retry + 1
                /\ flask'.resp = flask.resp
                /\ session' = session]_vars

\* C22 witness: a request has ended with the result of its task, returned by
\* the one poll that found the record terminal.
C22_Witness ==
    /\ flask.pc = "idle"
    /\ flask.resp.poll_status = "completed"
    /\ flask.resp.body.status = "success"
    /\ flask.query_id \in DOMAIN active_tasks
    /\ flask.resp.body.message = active_tasks[flask.query_id].result
    /\ last.op = "get_result"
    /\ polled[flask.query_id].n = 1

\* C25: a /query request whose form has no query, or an empty one, is
\* answered 400 with the error "Query cannot be empty"; the session history
\* and the API server are left as they were; a request that goes on to store
\* a user message has a non-empty query.
C25_EmptyQueryRejected ==
    [][/\ \A form \in Forms :
             FlaskQueryEmpty(form) =>
                /\ flask'.resp.http = 400
                /\ flask'.resp.body = [error |-> "Query cannot be empty"]
                /\ flask'.pc = "idle"
                /\ flask'.posts = flask.posts
                /\ flask'.requests = flask.requests
                /\ session' = session
                /\ active_tasks' = active_tasks
                /\ bg' = bg
                /\ issued' = issued
                /\ last' = last
       /\ \A form \in {NoField, Field("")} :
             ~FlaskQueryBegin(form_get(form))]_vars

\* C25 witness: an empty query was refused while the session held the two
\* messages of an earlier request.
C25_Witness ==
    /\ flask.resp = EmptyQueryResponse
    /\ flask.requests = 1
    /\ Len(session.messages) = 2
    /\ Len(issued) = 1

\* C24: clear_chat leaves an empty history and answers {status: success}
\* without touching the API server: registry, background tasks and workspace
\* are unchanged; a /query that follows an emptied history starts the history
\* with its own user message.
C24_ClearChatEmptiesHistory ==
    [][/\ FlaskClearChat =>
             /\ session'.has
             /\ session'.messages = <<>>
             /\ flask'.resp.http = HTTP_OK
             /\ flask'.resp.body = [status |-> "success"]
             /\ active_tasks' = active_tasks
             /\ bg' = bg
             /\ workspace' = workspace
             /\ issued' = issued
             /\ last' = last
       /\ \A q \in Texts :
             (FlaskQueryBegin(q) /\ session.has /\ session.messages = <<>>) =>
                flask'.sess.messages = <<[role |-> "user", content |-> Str(<<q>>)]>>
       /\ (flask.pc # "idle" /\ flask'.pc = "idle" /\ Len(flask.sess.messages) = 1) =>
             /\ Len(session'.messages) = 2
             /\ session'.messages[1] = flask.sess.messages[1]]_vars

\* C24 witness: the history of a first request was cleared and a second
\* request has completed; the history holds the two messages of the second.
C24_Witness ==
    /\ flask.pc = "idle"
    /\ flask.requests = 2
    /\ Len(session.messages) = 2
    /\ session.messages[1].role = "user"
    /\ flask.resp.poll_status = "completed"
    /\ session.messages[2].content = flask.resp.body.message

----------------------------------------------------------------------------
(* Properties of the MCP clients, under McpSpec *)

OpenSessions == {i \in DOMAIN mcp.opened : mcp.opened[i] = "open"}

\* C26: call_tool and process_query raise "Not connected to MCP server. Call
\* connect() first." and send no request whenever the client has no session;
\* the client has none at the start, after a connect that failed and after a
\* close, and gets one only by a connect that succeeded.
C26_NotConnectedRaises ==
    /\ mcp.session = 0
    /\ [][/\ \A o \in CallOutcomes :
                (McpCallTool(o) /\ mcp.session = 0) =>
                   /\ mcp'.last = [op |-> "call_tool", sent |-> 0,
                                   raised |-> "Not connected to MCP server. Call connect() first."]
                   /\ mcp'.opened = mcp.opened
          /\ \A o \in QueryOutcomes :
                (McpProcessQuery(o) /\ mcp.session = 0) =>
                   /\ mcp'.last = [op |-> "process_query", sent |-> 0,
                                   raised |-> "Not connected to MCP server. Call connect() first."]
                   /\ mcp'.opened = mcp.opened
          /\ McpClose => mcp'.session = 0
          /\ \A o \in ConnectFailures, t \in ToolLists :
                McpConnect(o, t) => mcp'.session = 0
          /\ (mcp.session = 0 /\ mcp'.session # 0) =>
                mcp'.last = [op |-> "connect", sent |-> 2, raised |-> ""]]_vars

\* C26 witness: after a connect that succeeded and a close, process_query
\* has raised the message without sending anything.
C26_Witness ==
    /\ mcp.main = "none"
    /\ mcp.opened = <<"closed">>
    /\ mcp.tools # <<>>
    /\ mcp.session = 0
    /\ mcp.last = Call("process_query", NotConnectedMsg, 0)

\* C27: a connect that fails at either step leaves the session it opened
\* closed and self.session None, leaves self.tools as it was and raises; the
\* tools change only in a connect whose two steps succeeded.
C27_FailedConnectCleansUp ==
    [][/\ \A o \in ConnectFailures, t \in ToolLists :
             (McpConnect(o, t) \/ MainConnect(o, t)) =>
                /\ mcp'.session = 0
                /\ mcp'.opened = Append(mcp.opened, "closed")
                /\ mcp'.tools = mcp.tools
                /\ mcp'.last.op = "connect"
                /\ mcp'.last.raised # ""
       /\ mcp'.tools # mcp.tools => mcp'.last = [op |-> "connect", sent |-> 2, raised |-> ""]]_vars

\* C27 witness: a connect failed at /list_tools on a client that holds the
\* tools of an earlier connect.
C27_Witness ==
    /\ mcp.last.op = "connect"
    /\ mcp.last.raised # ""
    /\ mcp.last.sent = 2
    /\ mcp.tools # <<>>
    /\ mcp.session = 0
    /\ mcp.opened[Len(mcp.opened)] = "closed"

\* C28: after any sequence of connect and close calls at most one session
\* the client created is open, and after a close none is.
C28_AtMostOneOpenSession ==
    /\ Cardinality(OpenSessions) <= 1
    /\ mcp.last.op = "close" => OpenSessions = {}

\* C29: when main has returned the client has no session and every session
\* it created is closed; a query that raises takes main out of the loop, and
\* so does quit.
C29_MainClosesClient ==
    [][/\ mcp'.main = "returned" => (mcp'.session = 0 /\ \A i \in DOMAIN mcp'.opened :
                                                             mcp'.opened[i] = "closed")
       /\ \A o \in QueryOutcomes :
             (MainQuery(o) /\ mcp'.last.raised # "") => mcp'.main = "finally"
       /\ MainQuit => mcp'.main = "finally"
       /\ (mcp.main = "finally" /\ mcp' # mcp) => mcp'.main = "returned"]_vars

\* C29 witness: main has returned after a query raised; the one session it
\* created is closed.
C29_Witness ==
    /\ mcp.main = "returned"
    /\ mcp.last.op = "process_query"
    /\ mcp.last.raised # ""
    /\ mcp.opened = <<"closed">>
    /\ mcp.session = 0

\* (under StreamlitSpec)
\* C30: whenever connect_to_server or execute_tool reaches its HTTP request,
\* the shared aiohttp session is open.
C30_SharedSessionOpenAtRequest ==
    st.last.at_request # "closed"

----------------------------------------------------------------------------
(* Properties of the Streamlit chat, under StreamlitSpec *)

\* C31: after any sequence of chat inputs, made while connected or not,
\* chat_history alternates user and assistant entries, and so do the
\* messages process_query sends to the model.
C31_ChatHistoryAlternates ==
    /\ \A k \in DOMAIN st.chat_history : st.chat_history[k].is_user = (k % 2 = 1)
    /\ \A k \in DOMAIN st.sent : st.sent[k] = IF k % 2 = 1 THEN "user" ELSE "assistant"

----------------------------------------------------------------------------
(* Properties of the start script, under StartSpec *)

\* the children that run and were not terminated
Untended == {c \in Children : sup[c].state = "running" /\ ~sup[c].terminated}

\* C32: the Flask app is started only while the API server runs; when main
\* is over it has not left exactly one of the two children running without
\* terminating it, and after a keyboard interrupt every child it started was
\* terminated and waited for.
C32_NoLoneChild ==
    /\ sup.flask.state # "none" => sup.api.state # "none"
    /\ sup.pc \in Ended => Cardinality(Untended) # 1
    /\ (sup.pc \in Ended /\ sup.interrupted) =>
          \A c \in Children :
             sup[c].state # "none" => (sup[c].terminated /\ sup[c].waited)

----------------------------------------------------------------------------
(* Properties of MCPHttpClient.process_query, under QuerySpec *)

\* the tools a response asks for, in order
ToolNames(blocks) ==
    LET uses == SelectSeq(blocks, LAMBDA b : b.type = "tool_use")
    IN  [k \in 1..Len(uses) |-> uses[k].name]

\* the tools a run executed, in order
Executed(r) ==
    LET calls == SelectSeq(r.events, LAMBDA e : e.ev = "call_tool")
    IN  [k \in 1..Len(calls) |-> calls[k].arg]

\* the tool calls of the query that fail, by their position
FailingCalls(q) == {n \in 1..Len(ToolNames(q.initial)) : q.results[n] # "ok"}

\* C33: process_query executes each tool_use block of the initial response
\* exactly once and in order, follows each execution with exactly one further
\* model call, and never executes a tool requested in a follow-up response;
\* if a tool call fails the exception propagates and no text is returned.
C33_ToolUseOnceInOrder ==
    LET r      == mcp.run
        wanted == ToolNames(r.q.initial)
        n      == Len(r.events)
    IN  r.events # <<>> =>
          /\ r.events[1] = Event("create", "tools")
          /\ FailingCalls(r.q) = {} =>
                /\ Executed(r) = wanted
                /\ r.raised = "" /\ r.returned
          /\ \A k \in 1..n :
                r.events[k].ev = "call_tool" =>
                   \/ k < n /\ r.events[k + 1] = Event("create", "no_tools")
                   \/ k = n /\ r.q.results[Len(Executed(r))] # "ok"
          /\ \A k \in 2..n :
                r.events[k].ev = "create" => r.events[k - 1].ev = "call_tool"
          /\ \A f \in FailingCalls(r.q) :
                (\A g \in FailingCalls(r.q) : f <= g) =>
                   /\ Executed(r) = SubSeq(wanted, 1, f)
                   /\ r.raised = CallError(r.q.results[f])
                   /\ ~r.returned /\ r.final_text = <<>>

\* C33 witness: an initial response with two tool_use blocks was processed,
\* both tools ran in order and each follow-up response asked for a tool
\* that was not run.
C33_Witness ==
    /\ mcp.run.returned
    /\ mcp.run.q.initial = <<ToolUse("github_repo"), ToolUse("analyze_code")>>
    /\ mcp.run.q.followups[1] = <<ToolUse("docker")>>
    /\ Executed(mcp.run) = <<"github_repo", "analyze_code">>

\* C33 witness of the failure: the second tool call of a query failed after
\* the first one ran.
C33_FailureWitness ==
    /\ mcp.run.raised = "Failed to execute tool: "
    /\ Len(Executed(mcp.run)) = 2

====
